---- MODULE Spec2Model ----
(***************************************************************************)
(* Model of the conversational memory manager of the D&D game master:      *)
(*   - SimpleMemorySystem (src/src/memory.py): add_event, check_for_cutoff,*)
(*     compress_memory, with the llm_parse oracle of src/src/llm.py;       *)
(*   - approx_tokens, chunk_messages, summarize_chunk and                  *)
(*     hierarchical_summary (src/src/context/compression.py);              *)
(*   - AppState and the game loop main (src/src/main.py), which save the   *)
(*     memory to and load it from STATE_SAVE_FILE.                         *)
(*                                                                         *)
(* Strings of the memory system are sequences of one-character strings, so *)
(* that str.strip and str.join are computed.  Texts handed to the chunker  *)
(* are abstracted to what the token estimate reads: their character count  *)
(* (len) and the number of tokens the tiktoken encoder gives them (bpe).   *)
(*                                                                         *)
(* The specifications share the variables:                                 *)
(*   Spec        the memory store driven by the methods of its class;      *)
(*   ChunkSpec   approx_tokens and chunk_messages applied to drawn inputs; *)
(*   SummarySpec hierarchical_summary, one step per (recursive) call, with *)
(*               weak fairness: the synchronous call keeps running;        *)
(*   AppSpec     the store with AppState.load, save and append_memory;     *)
(*   MainSpec    the game loop of main;                                    *)
(*   OrderSpec   add_event and compress_memory with the add order kept;    *)
(*   ConcSpec    compress_memory split at its oracle call, with add_event  *)
(*               of another caller in between;                             *)
(*   DefaultSpec hierarchical_summary with its default chunk budget and an *)
(*               oracle that keeps to the summary size asked for.          *)
(***************************************************************************)
EXTENDS Integers, Sequences, FiniteSets, TLC

VARIABLES
    long_term_memory,   \* SimpleMemorySystem.long_term_memory : str
    short_term_memory,  \* SimpleMemorySystem.short_term_memory : list[str]
    compression_count,  \* SimpleMemorySystem.compression_count : int
    last_compression,   \* SimpleMemorySystem.last_compression : Optional[str]
    last,               \* record of the most recent completed call (history)
    disk,               \* main.py STATE_SAVE_FILE: absent, or the JSON text last written
    pending,            \* a compress_memory call waiting for the oracle (concurrent use)
    added,              \* history: the stripped events, in the order add_event took them
    tiktoken,           \* compression.py module global: TRUE iff the import succeeded
    messages,           \* argument `messages` of chunk_messages / hierarchical_summary
    max_tokens,         \* argument `max_tokens` / `chunk_tokens`
    pc,                 \* position of the chunker / summarizer caller, or of main
    text,               \* argument of the last approx_tokens call
    tokens,             \* value the last approx_tokens call returned
    chunks,             \* value chunk_messages returned (chunks of the current pass)
    summaries,          \* hierarchical_summary: the list `summaries` built so far
    asked,              \* history: the chunks sent to the oracle in the current pass
    summary,            \* value hierarchical_summary returned
    shrunk              \* history: every oracle summary so far was strictly shorter
                        \* than the content of its chunk

appVars == <<disk, pending, added>>
memVars == <<long_term_memory, short_term_memory, compression_count, last_compression, last,
             disk, pending, added>>
ctxVars == <<tiktoken, messages, max_tokens, pc, text, tokens, chunks, summaries, summary,
             shrunk, asked>>
vars == <<long_term_memory, short_term_memory, compression_count, last_compression, last,
          disk, pending, added,
          tiktoken, messages, max_tokens, pc, text, tokens, chunks, summaries, summary,
          shrunk, asked>>

---------------------------------------------------------------------------
(* Bounds of the model *)

MaxEvents == 6
MaxCompressions == 2

(* Program constants *)

MIN_EVENTS == 5
KEEP_RECENT == 3

None == "None"
True == "True"
False == "False"
Raised == "raised"

---------------------------------------------------------------------------
(* Strings of the memory system *)

Whitespace == {" ", "\n"}

RECURSIVE lstrip(_)
lstrip(s) ==
    IF s # <<>> /\ Head(s) \in Whitespace THEN lstrip(Tail(s)) ELSE s

RECURSIVE rstrip(_)
rstrip(s) ==
    IF s # <<>> /\ s[Len(s)] \in Whitespace THEN rstrip(SubSeq(s, 1, Len(s) - 1)) ELSE s

strip(s) == rstrip(lstrip(s))

RECURSIVE join(_, _)
join(sep, strs) ==
    IF strs = <<>> THEN <<>>
    ELSE IF Len(strs) = 1 THEN strs[1]
    ELSE strs[1] \o sep \o join(sep, Tail(strs))

(* Python's seq[-n:] *)
LastSlice(seq, n) ==
    IF Len(seq) <= n THEN seq ELSE SubSeq(seq, Len(seq) - n + 1, Len(seq))

---------------------------------------------------------------------------
(* Inputs and oracle answers of the memory system *)

EventTexts == { <<"a">>, <<" ", "b", "\n", "c", "\n">> }

LongTermDocs == { <<>>, <<"X">>, <<"Z">> }
SessionSummaries == { <<"Y">> }
Reasons == { <<"r">>, <<>> }
Timestamps == { "2025-06-01T10:00:00", "2025-06-01T11:00:00" }

(* llm_parse(messages, CutoffDecision): a validated CutoffDecision, or an
   exception (transport error, refusal, malformed answer, failed assert). *)
CutoffDecisions == [reason : Reasons, should_compress : BOOLEAN]

(* llm_parse(messages, MemoryCompression) *)
MemoryCompressions == [compressed_long_term : LongTermDocs, session_summary : SessionSummaries]

llm_parse(response_format) ==
    [raises : {TRUE}] \cup [raises : {FALSE}, parsed : response_format]

(* print(...): the write to stdout succeeds or raises (OSError, UnicodeEncodeError). *)
PrintOutcomes == {"ok", "raises"}

Store ==
    [long_term_memory |-> long_term_memory,
     short_term_memory |-> short_term_memory,
     compression_count |-> compression_count,
     last_compression |-> last_compression]

NoCall == [op |-> "none"]
NoFile == [exists |-> FALSE]

---------------------------------------------------------------------------
(* SimpleMemorySystem *)

MemInit ==
    /\ long_term_memory = <<>>
    /\ short_term_memory = <<>>
    /\ compression_count = 0
    /\ last_compression = None
    /\ last = NoCall

(* A plausible slip: the event stored as it was passed. *)
AddEventCall_mutNoStrip(st, event) ==
    [store |-> [st EXCEPT !.short_term_memory = Append(@, event)],
     result |-> None, requests |-> <<>>, replies |-> <<>>, raised |-> {}]

(* add_event: self.short_term_memory.append(event.strip()) *)
AddEventCall(st, event) ==
    [store |-> [st EXCEPT !.short_term_memory = Append(@, strip(event))],
     result |-> None, requests |-> <<>>, replies |-> <<>>, raised |-> {}]

(* check_for_cutoff, line 41: the minimum-events test *)
TooFewEvents_mutOffByOne(short_term) == Len(short_term) < MIN_EVENTS - 1

TooFewEvents(short_term) == Len(short_term) < MIN_EVENTS

BoolStr(b) == IF b THEN True ELSE False

(* A plausible slip: the decision object itself tested, so that an empty
   reason turns the answer into False. *)
CutoffCall_mutReasonCounts(st, resp) ==
    IF TooFewEvents(st.short_term_memory)
    THEN [store |-> st, result |-> False, requests |-> <<>>, replies |-> <<>>,
          raised |-> {}]
    ELSE LET recent_events == join(<<"\n">>, st.short_term_memory)
             request == [kind |-> "cutoff", recent_events |-> recent_events]
         IN  IF resp.raises
             THEN [store |-> st, result |-> Raised, requests |-> <<request>>,
                   replies |-> <<resp>>, raised |-> {"llm_parse"}]
             ELSE [store |-> st,
                   result |-> BoolStr(resp.parsed.should_compress
                                      /\ resp.parsed.reason # <<>>),
                   requests |-> <<request>>, replies |-> <<resp>>, raised |-> {}]

(* check_for_cutoff (awaited): `resp` is what llm_parse does if it is called *)
CutoffCall(st, resp) ==
    IF TooFewEvents(st.short_term_memory)
    THEN [store |-> st, result |-> False, requests |-> <<>>, replies |-> <<>>,
          raised |-> {}]
    ELSE LET recent_events == join(<<"\n">>, st.short_term_memory)
             request == [kind |-> "cutoff", recent_events |-> recent_events]
         IN  IF resp.raises
             THEN [store |-> st, result |-> Raised, requests |-> <<request>>,
                   replies |-> <<resp>>, raised |-> {"llm_parse"}]
             ELSE [store |-> st, result |-> BoolStr(resp.parsed.should_compress),
                   requests |-> <<request>>, replies |-> <<resp>>, raised |-> {}]

(* compress_memory, line 65: `if not self.short_term_memory` *)
NothingToCompress_mutNever(short_term) == FALSE

NothingToCompress(short_term) == short_term = <<>>

(* A plausible slip: short_term_memory emptied by the compression. *)
RecentTail_mutClear(short_term) == <<>>

(* A plausible slip: the oldest events kept instead of the newest. *)
RecentTail_mutKeepOldest(short_term) ==
    SubSeq(short_term, 1, IF Len(short_term) < KEEP_RECENT THEN Len(short_term)
                          ELSE KEEP_RECENT)

(* compress_memory, line 103: self.short_term_memory[-3:] *)
RecentTail_mutKeepTwo(short_term) == LastSlice(short_term, KEEP_RECENT - 1)

RecentTail(short_term) == LastSlice(short_term, KEEP_RECENT)

(* A plausible slip: short_term_memory truncated before the oracle has answered. *)
CompressTry_mutTruncateFirst(st, resp, now, print109) ==
    IF resp.raises
    THEN [store |-> [st EXCEPT !.short_term_memory = RecentTail(@)],
          raised |-> {"llm_parse"}]
    ELSE LET s1 == [st EXCEPT !.long_term_memory = resp.parsed.compressed_long_term]
             s2 == [s1 EXCEPT !.short_term_memory = RecentTail(s1.short_term_memory)]
             s3 == [s2 EXCEPT !.compression_count = @ + 1]
             s4 == [s3 EXCEPT !.last_compression = now]
         IN  [store |-> s4, raised |-> IF print109 = "raises" THEN {"print109"} ELSE {}]

(* A plausible slip: the timestamp assignment left out. *)
CompressTry_mutNoTimestamp(st, resp, now, print109) ==
    IF resp.raises
    THEN [store |-> st, raised |-> {"llm_parse"}]
    ELSE LET s1 == [st EXCEPT !.long_term_memory = resp.parsed.compressed_long_term]
             s2 == [s1 EXCEPT !.short_term_memory = RecentTail(s1.short_term_memory)]
             s3 == [s2 EXCEPT !.compression_count = @ + 1]
         IN  [store |-> s3, raised |-> IF print109 = "raises" THEN {"print109"} ELSE {}]

(* compress_memory, lines 96-110: the body of the try block, statement by
   statement: the store it leaves and the statement that raised, if any. *)
CompressTry(st, resp, now, print109) ==
    IF resp.raises
    THEN [store |-> st, raised |-> {"llm_parse"}]
    ELSE LET s1 == [st EXCEPT !.long_term_memory = resp.parsed.compressed_long_term]
             s2 == [s1 EXCEPT !.short_term_memory = RecentTail(s1.short_term_memory)]
             s3 == [s2 EXCEPT !.compression_count = @ + 1]
             s4 == [s3 EXCEPT !.last_compression = now]
         IN  [store |-> s4, raised |-> IF print109 = "raises" THEN {"print109"} ELSE {}]

(* A plausible slip: the merge request built from the events that are kept. *)
CompressCall_mutRequestTail(st, resp, now, print109, print113) ==
    IF NothingToCompress(st.short_term_memory)
    THEN [store |-> st, result |-> False, requests |-> <<>>, replies |-> <<>>,
          raised |-> {}]
    ELSE LET current_short_term == join(<<"\n">>, RecentTail(st.short_term_memory))
             request == [kind |-> "merge",
                         long_term_memory |-> st.long_term_memory,
                         short_term |-> current_short_term]
             try == CompressTry(st, resp, now, print109)
         IN  IF try.raised = {}
             THEN [store |-> try.store, result |-> True, requests |-> <<request>>,
                   replies |-> <<resp>>, raised |-> {}]
             ELSE IF print113 = "raises"
             THEN [store |-> try.store, result |-> Raised, requests |-> <<request>>,
                   replies |-> <<resp>>, raised |-> try.raised \cup {"print113"}]
             ELSE [store |-> try.store, result |-> False, requests |-> <<request>>,
                   replies |-> <<resp>>, raised |-> try.raised]

(* compress_memory: `resp` is what llm_parse does, `now` what datetime.now()
   reads, print109 and print113 what the two print statements do, if reached.
   result Raised: the exception left the call (the handler's print raised). *)
CompressCall(st, resp, now, print109, print113) ==
    IF NothingToCompress(st.short_term_memory)
    THEN [store |-> st, result |-> False, requests |-> <<>>, replies |-> <<>>,
          raised |-> {}]
    ELSE LET current_short_term == join(<<"\n">>, st.short_term_memory)
             request == [kind |-> "merge",
                         long_term_memory |-> st.long_term_memory,
                         short_term |-> current_short_term]
             try == CompressTry(st, resp, now, print109)
         IN  IF try.raised = {}
             THEN [store |-> try.store, result |-> True, requests |-> <<request>>,
                   replies |-> <<resp>>, raised |-> {}]
             ELSE IF print113 = "raises"
             THEN [store |-> try.store, result |-> Raised, requests |-> <<request>>,
                   replies |-> <<resp>>, raised |-> try.raised \cup {"print113"}]
             ELSE [store |-> try.store, result |-> False, requests |-> <<request>>,
                   replies |-> <<resp>>, raised |-> try.raised]

(* The store and the call record after a call whose outcome is `out` *)
Completes(op, arg, out) ==
    /\ long_term_memory' = out.store.long_term_memory
    /\ short_term_memory' = out.store.short_term_memory
    /\ compression_count' = out.store.compression_count
    /\ last_compression' = out.store.last_compression
    /\ last' = [op |-> op, arg |-> arg, pre |-> Store, result |-> out.result,
                requests |-> out.requests, replies |-> out.replies,
                raised |-> out.raised]

(* The texts get_full_context and get_player_summary are built from; each
   fixed run of characters of the templates is one element. *)
CampaignHeader == "# CAMPAIGN MEMORY"
LongTermHeader == "## Long-term Memory"
RecentHeader == "## Recent Events"
NoRecentEvents == "No recent events."
CampaignJustStarted == "Campaign just started - no major events yet."

(* A plausible slip: the two templates exchanged. *)
FullContext_mutBranchesSwapped(st) ==
    LET recent_events == IF st.short_term_memory # <<>>
                         THEN join(<<"\n">>, st.short_term_memory)
                         ELSE <<NoRecentEvents>>
    IN  IF st.long_term_memory = <<>>
        THEN <<CampaignHeader, "\n", "\n", LongTermHeader, "\n">> \o st.long_term_memory
             \o <<"\n", "\n", RecentHeader, "\n">> \o recent_events \o <<"\n">>
        ELSE <<CampaignHeader, "\n", "\n", RecentHeader, " ", " ", "\n">>
             \o recent_events \o <<"\n">>

(* get_full_context, lines 118-134: the string returned *)
FullContext(st) ==
    LET recent_events == IF st.short_term_memory # <<>>
                         THEN join(<<"\n">>, st.short_term_memory)
                         ELSE <<NoRecentEvents>>
    IN  IF st.long_term_memory # <<>>
        THEN <<CampaignHeader, "\n", "\n", LongTermHeader, "\n">> \o st.long_term_memory
             \o <<"\n", "\n", RecentHeader, "\n">> \o recent_events \o <<"\n">>
        ELSE <<CampaignHeader, "\n", "\n", RecentHeader, " ", " ", "\n">>
             \o recent_events \o <<"\n">>

GetFullContextCall(st) ==
    [store |-> st, result |-> FullContext(st), requests |-> <<>>, replies |-> <<>>,
     raised |-> {}]

(* get_player_summary, line 138 *)
GetPlayerSummaryCall(st) ==
    [store |-> st,
     result |-> IF st.long_term_memory # <<>> THEN st.long_term_memory
                ELSE <<CampaignJustStarted>>,
     requests |-> <<>>, replies |-> <<>>, raised |-> {}]

add_event ==
    /\ Len(short_term_memory) < MaxEvents
    /\ \E event \in EventTexts : Completes("add_event", event, AddEventCall(Store, event))
    /\ UNCHANGED <<ctxVars, appVars>>

get_full_context ==
    /\ Completes("get_full_context", None, GetFullContextCall(Store))
    /\ UNCHANGED <<ctxVars, appVars>>

get_player_summary ==
    /\ Completes("get_player_summary", None, GetPlayerSummaryCall(Store))
    /\ UNCHANGED <<ctxVars, appVars>>

check_for_cutoff ==
    /\ \E resp \in llm_parse(CutoffDecisions) :
          Completes("check_for_cutoff", None, CutoffCall(Store, resp))
    /\ UNCHANGED <<ctxVars, appVars>>

compress_memory ==
    /\ compression_count < MaxCompressions
    /\ \E resp \in llm_parse(MemoryCompressions), now \in Timestamps,
          print109 \in PrintOutcomes, print113 \in PrintOutcomes :
          Completes("compress_memory", None,
                    CompressCall(Store, resp, now, print109, print113))
    /\ UNCHANGED <<ctxVars, appVars>>

CtxIdle ==
    /\ tiktoken = FALSE
    /\ messages = <<>>
    /\ max_tokens = 0
    /\ pc = "idle"
    /\ text = None
    /\ tokens = 0
    /\ chunks = <<>>
    /\ summaries = <<>>
    /\ summary = None
    /\ shrunk = TRUE
    /\ asked = <<>>

AppIdle ==
    /\ disk = NoFile
    /\ pending = NoCall
    /\ added = <<>>

Init == MemInit /\ AppIdle /\ CtxIdle

Next ==
    \/ add_event
    \/ check_for_cutoff
    \/ compress_memory
    \/ get_full_context
    \/ get_player_summary

Spec == Init /\ [][Next]_vars

---------------------------------------------------------------------------
(* Properties of compress_memory and check_for_cutoff, stated on the record
   of the most recent call (`last`) and the store it left. *)

CompressReturned == last.op = "compress_memory" /\ last.result \in {True, False}

(* The last min(3, n) elements of seq, in order (stated without LastSlice) *)
IsLastThreeOf(tail, seq) ==
    LET n == Len(seq)
        k == IF n < 3 THEN n ELSE 3
    IN  /\ Len(tail) = k
        /\ \A i \in 1..k : tail[i] = seq[n - k + i]

(* C1: every completed compress_memory call either returns true with
   long_term_memory replaced by the oracle's document, short_term_memory cut
   to its last 3 events and compression_count one higher, or returns false
   with long_term_memory, short_term_memory, compression_count and
   last_compression all equal to their pre-call values, whatever statement
   inside the call raised. *)
C1_AllOrNothing ==
    CompressReturned =>
        \/ /\ last.result = True
           /\ long_term_memory = last.replies[1].parsed.compressed_long_term
           /\ IsLastThreeOf(short_term_memory, last.pre.short_term_memory)
           /\ compression_count = last.pre.compression_count + 1
        \/ /\ last.result = False
           /\ Store = last.pre

(* C2: when llm_parse raises during compress_memory on a non-empty
   short_term_memory (and nothing else fails), the call returns false and
   long_term_memory, short_term_memory and compression_count keep their
   pre-call values. *)
C2_OracleErrorLeavesStore ==
    ( /\ last.op = "compress_memory"
      /\ last.pre.short_term_memory # <<>>
      /\ last.raised = {"llm_parse"} )
    =>  /\ last.result = False
        /\ long_term_memory = last.pre.long_term_memory
        /\ short_term_memory = last.pre.short_term_memory
        /\ compression_count = last.pre.compression_count

C2_Witness ==
    /\ last.op = "compress_memory"
    /\ last.raised = {"llm_parse"}
    /\ Len(last.pre.short_term_memory) > 3
    /\ last.pre.long_term_memory # <<>>
    /\ last.pre.compression_count = 1

(* C3: a compress_memory call that succeeds on n >= 1 events leaves
   long_term_memory equal to the oracle's compressed_long_term,
   short_term_memory equal to the last min(3, n) pre-call events in their
   order (3 of them when n = 6), compression_count one higher and
   last_compression set to a timestamp. *)
C3_SuccessEffect ==
    (last.op = "compress_memory" /\ last.result = True) =>
        /\ Len(last.pre.short_term_memory) >= 1
        /\ long_term_memory = last.replies[1].parsed.compressed_long_term
        /\ IsLastThreeOf(short_term_memory, last.pre.short_term_memory)
        /\ (Len(last.pre.short_term_memory) = 6 => Len(short_term_memory) = 3)
        /\ compression_count = last.pre.compression_count + 1
        /\ last_compression # None
        /\ last_compression \in Timestamps

C3_Witness ==
    /\ last.op = "compress_memory"
    /\ last.result = True
    /\ Len(last.pre.short_term_memory) = 6
    /\ last.pre.short_term_memory[4] # last.pre.short_term_memory[6]
    /\ last.pre.short_term_memory[3] # last.pre.short_term_memory[4]
    /\ long_term_memory = <<"X">>
    /\ compression_count = 1

(* C4: on an empty short_term_memory compress_memory returns false, makes no
   oracle call, raises nothing and changes no field of the store. *)
C4_EmptyIsNoOp ==
    (last.op = "compress_memory" /\ last.pre.short_term_memory = <<>>) =>
        /\ last.result = False
        /\ last.requests = <<>>
        /\ last.raised = {}
        /\ Store = last.pre

C4_Witness ==
    /\ last.op = "compress_memory"
    /\ last.pre.short_term_memory = <<>>
    /\ last.result = False

(* C9: with fewer than 5 events in short_term_memory check_for_cutoff returns
   false and makes no oracle call, whatever the oracle would have done. *)
C9_BelowMinimumNoOracle ==
    (last.op = "check_for_cutoff" /\ Len(last.pre.short_term_memory) < 5) =>
        /\ last.result = False
        /\ last.requests = <<>>
        /\ last.raised = {}

C9_Witness ==
    /\ last.op = "check_for_cutoff"
    /\ Len(last.pre.short_term_memory) = 4
    /\ last.result = False

---------------------------------------------------------------------------
(* Token estimation and chunking (src/src/context/compression.py) *)

MaxMsgs == 3
MaxBudget == 3

(* A text, abstracted to its character count and to the number of tokens the
   tiktoken encoder gives it: none for the empty text, at least one and at
   most one per character otherwise. *)
TextLens == {0, 3, 4, 8}
BpeCounts == {0, 1, 2}

Texts ==
    { t \in [len : TextLens, bpe : BpeCounts] :
        /\ (t.len = 0) <=> (t.bpe = 0)
        /\ t.bpe <= t.len }

Roles == {"user"}
Messages == [role : Roles, content : Texts]

RECURSIVE SeqsUpTo(_, _)
SeqsUpTo(S, n) ==
    IF n = 0 THEN { <<>> }
    ELSE LET shorter == SeqsUpTo(S, n - 1)
         IN  shorter \cup { Append(s, x) : s \in { q \in shorter : Len(q) = n - 1 }, x \in S }

Max(a, b) == IF a >= b THEN a ELSE b

(* len(enc.encode(text)) *)
EncodedLen(t) == t.bpe

approx_tokens(t) ==
    IF tiktoken THEN EncodedLen(t) ELSE Max(1, t.len \div 4)

(* The loop of chunk_messages over the messages still to place:
   `acc` is the list `chunks` so far. *)
RECURSIVE ChunkLoop(_, _, _, _)
ChunkLoop(msgs, acc, current_tokens, limit) ==
    IF msgs = <<>> THEN acc
    ELSE LET msg == Head(msgs)
             msg_tokens == approx_tokens(msg.content)
             start_new == current_tokens + msg_tokens > limit /\ acc[Len(acc)] # <<>>
             acc1 == IF start_new THEN Append(acc, <<>>) ELSE acc
             current1 == IF start_new THEN 0 ELSE current_tokens
             acc2 == [acc1 EXCEPT ![Len(acc1)] = Append(@, msg)]
         IN  ChunkLoop(Tail(msgs), acc2, current1 + msg_tokens, limit)

(* A plausible slip: the running total is not reset when a chunk is closed,
   and only the message's own size is compared after that. *)
RECURSIVE ChunkLoop_mutOwnSize(_, _, _, _)
ChunkLoop_mutOwnSize(msgs, acc, current_tokens, limit) ==
    IF msgs = <<>> THEN acc
    ELSE LET msg == Head(msgs)
             msg_tokens == approx_tokens(msg.content)
             start_new == msg_tokens > limit /\ acc[Len(acc)] # <<>>
             acc1 == IF start_new THEN Append(acc, <<>>) ELSE acc
             acc2 == [acc1 EXCEPT ![Len(acc1)] = Append(@, msg)]
         IN  ChunkLoop_mutOwnSize(Tail(msgs), acc2, current_tokens + msg_tokens, limit)

(* A plausible slip: the message that opens a new chunk is not appended. *)
RECURSIVE ChunkLoop_mutDropOpener(_, _, _, _)
ChunkLoop_mutDropOpener(msgs, acc, current_tokens, limit) ==
    IF msgs = <<>> THEN acc
    ELSE LET msg == Head(msgs)
             msg_tokens == approx_tokens(msg.content)
             start_new == current_tokens + msg_tokens > limit /\ acc[Len(acc)] # <<>>
         IN  IF start_new
             THEN ChunkLoop_mutDropOpener(Tail(msgs), Append(acc, <<>>), 0, limit)
             ELSE ChunkLoop_mutDropOpener(Tail(msgs),
                      [acc EXCEPT ![Len(acc)] = Append(@, msg)],
                      current_tokens + msg_tokens, limit)

(* A plausible slip: a chunk is closed as soon as the budget is reached,
   not when it would be exceeded. *)
RECURSIVE ChunkLoop_mutAtLimit(_, _, _, _)
ChunkLoop_mutAtLimit(msgs, acc, current_tokens, limit) ==
    IF msgs = <<>> THEN acc
    ELSE LET msg == Head(msgs)
             msg_tokens == approx_tokens(msg.content)
             start_new == current_tokens + msg_tokens >= limit /\ acc[Len(acc)] # <<>>
             acc1 == IF start_new THEN Append(acc, <<>>) ELSE acc
             current1 == IF start_new THEN 0 ELSE current_tokens
             acc2 == [acc1 EXCEPT ![Len(acc1)] = Append(@, msg)]
         IN  ChunkLoop_mutAtLimit(Tail(msgs), acc2, current1 + msg_tokens, limit)

(* A plausible slip: the test that the current chunk is not empty left out. *)
RECURSIVE ChunkLoop_mutNoEmptyTest(_, _, _, _)
ChunkLoop_mutNoEmptyTest(msgs, acc, current_tokens, limit) ==
    IF msgs = <<>> THEN acc
    ELSE LET msg == Head(msgs)
             msg_tokens == approx_tokens(msg.content)
             start_new == current_tokens + msg_tokens > limit
             acc1 == IF start_new THEN Append(acc, <<>>) ELSE acc
             current1 == IF start_new THEN 0 ELSE current_tokens
             acc2 == [acc1 EXCEPT ![Len(acc1)] = Append(@, msg)]
         IN  ChunkLoop_mutNoEmptyTest(Tail(msgs), acc2, current1 + msg_tokens, limit)

chunk_messages_mutAtLimit(msgs, limit) == ChunkLoop_mutAtLimit(msgs, << <<>> >>, 0, limit)

chunk_messages_mutNoEmptyTest(msgs, limit) ==
    ChunkLoop_mutNoEmptyTest(msgs, << <<>> >>, 0, limit)

(* A plausible slip: the list of chunks starts empty, a chunk is opened
   with the first message. *)
chunk_messages_mutNoSeed(msgs, limit) ==
    IF msgs = <<>> THEN <<>> ELSE ChunkLoop(msgs, << <<>> >>, 0, limit)

chunk_messages_mutOwnSize(msgs, limit) == ChunkLoop_mutOwnSize(msgs, << <<>> >>, 0, limit)

chunk_messages_mutDropOpener(msgs, limit) == ChunkLoop_mutDropOpener(msgs, << <<>> >>, 0, limit)

chunk_messages(msgs, limit) == ChunkLoop(msgs, << <<>> >>, 0, limit)

MemIdle == MemInit /\ AppIdle

ChunkInit ==
    /\ MemIdle
    /\ tiktoken \in BOOLEAN
    /\ messages \in SeqsUpTo(Messages, MaxMsgs)
    /\ max_tokens \in 0..MaxBudget
    /\ pc = "input"
    /\ text = None
    /\ tokens = 0
    /\ chunks = <<>>
    /\ summaries = <<>>
    /\ summary = None
    /\ shrunk = TRUE
    /\ asked = <<>>

(* A caller estimates one of the texts *)
CallApproxTokens ==
    /\ pc = "input"
    /\ \E i \in DOMAIN messages :
          /\ text' = messages[i].content
          /\ tokens' = approx_tokens(messages[i].content)
    /\ pc' = "estimated"
    /\ UNCHANGED <<tiktoken, messages, max_tokens, chunks, summaries, summary, shrunk, asked>>
    /\ UNCHANGED memVars

(* A caller chunks the messages *)
CallChunkMessages ==
    /\ pc = "input"
    /\ chunks' = chunk_messages(messages, max_tokens)
    /\ pc' = "chunked"
    /\ UNCHANGED <<tiktoken, messages, max_tokens, text, tokens, summaries, summary, shrunk,
                   asked>>
    /\ UNCHANGED memVars

ChunkNext == CallApproxTokens \/ CallChunkMessages

ChunkSpec == ChunkInit /\ [][ChunkNext]_vars

---------------------------------------------------------------------------
(* Properties of approx_tokens and chunk_messages *)

RECURSIVE SumTokens(_)
SumTokens(chunk) ==
    IF chunk = <<>> THEN 0 ELSE approx_tokens(Head(chunk).content) + SumTokens(Tail(chunk))

RECURSIVE Flatten(_)
Flatten(cs) == IF cs = <<>> THEN <<>> ELSE Head(cs) \o Flatten(Tail(cs))

Oversized(msg) == approx_tokens(msg.content) > max_tokens

(* C5: every chunk chunk_messages returns has a token sum <= max_tokens,
   unless it holds exactly one record whose own estimate exceeds max_tokens;
   an oversized record is always alone in its chunk, and every oversized
   record of the input is in some chunk, whole. *)
C5_ChunkWithinBudget ==
    pc = "chunked" =>
        /\ \A c \in DOMAIN chunks :
              \/ SumTokens(chunks[c]) <= max_tokens
              \/ Len(chunks[c]) = 1 /\ Oversized(chunks[c][1])
        /\ \A c \in DOMAIN chunks : \A j \in DOMAIN chunks[c] :
              Oversized(chunks[c][j]) => Len(chunks[c]) = 1
        /\ \A i \in DOMAIN messages :
              Oversized(messages[i]) =>
                  \E c \in DOMAIN chunks : chunks[c] = << messages[i] >>

C5_Witness ==
    /\ pc = "chunked"
    /\ Len(messages) = 3
    /\ ~Oversized(messages[1])
    /\ Oversized(messages[2])
    /\ ~Oversized(messages[3])
    /\ Len(chunks) = 3
    /\ max_tokens > 0

(* C6: for a non-empty input the chunks, concatenated in order, are exactly
   the input sequence. *)
C6_ChunksPartitionInput ==
    (pc = "chunked" /\ messages # <<>>) => Flatten(chunks) = messages

C6_Witness ==
    /\ pc = "chunked"
    /\ Len(messages) = 3
    /\ Len(chunks) = 2
    /\ Len(chunks[1]) = 2
    /\ messages[1] # messages[2]
    /\ messages[2] # messages[3]

(* C7: for the empty input chunk_messages returns exactly one chunk, which
   is empty, for every max_tokens. *)
C7_EmptyInputOneEmptyChunk ==
    (pc = "chunked" /\ messages = <<>>) => chunks = << <<>> >>

C7_Witness ==
    /\ pc = "chunked"
    /\ messages = <<>>
    /\ Len(chunks) = 1
    /\ max_tokens = 0

(* C10: approx_tokens returns an integer >= 1 for every text, the empty text
   included, with and without the tiktoken library. *)
C10_AtLeastOneToken ==
    pc = "estimated" => tokens >= 1

---------------------------------------------------------------------------
(* Hierarchical summarisation (src/src/context/compression.py) *)

MaxHistory == 2

(* The histories summarised and the oracle's answers: texts whose tiktoken
   count is about a token per four characters. *)
HistoryTexts ==
    { [len |-> 0, bpe |-> 0], [len |-> 3, bpe |-> 1],
      [len |-> 4, bpe |-> 2], [len |-> 8, bpe |-> 2] }

(* summarize_chunk(chunk): openai.ChatCompletion.create raises, or answers
   with a text; `content` is that answer after .strip(). *)
ChatCompletions == [raises : {TRUE}] \cup [raises : {FALSE}, content : HistoryTexts]

summarize_chunk(reply) == reply.content

(* Characters of content in a chunk *)
RECURSIVE ContentLen(_)
ContentLen(chunk) ==
    IF chunk = <<>> THEN 0 ELSE Head(chunk).content.len + ContentLen(Tail(chunk))

(* A plausible slip: the summaries handed on in reverse order. *)
merged_msgs_mutReversed(sums) ==
    [i \in DOMAIN sums |-> [role |-> "system", content |-> sums[Len(sums) + 1 - i]]]

(* line 82: merged_msgs *)
merged_msgs(sums) == [i \in DOMAIN sums |-> [role |-> "system", content |-> sums[i]]]

(* A plausible slip: the recursive call is given `messages` again. *)
RecursiveCallMessages_mutSameMessages(msgs, sums) == msgs

(* line 83: the messages of the recursive call, from the locals in scope *)
RecursiveCallMessages(msgs, sums) == merged_msgs(sums)

SummaryInit ==
    /\ MemIdle
    /\ tiktoken \in BOOLEAN
    /\ messages \in SeqsUpTo([role : Roles, content : HistoryTexts], MaxHistory)
    /\ max_tokens \in 0..MaxBudget
    /\ pc = "call"
    /\ text = None
    /\ tokens = 0
    /\ chunks = <<>>
    /\ summaries = <<>>
    /\ summary = None
    /\ shrunk = TRUE
    /\ asked = <<>>

(* line 75: entry of a call of hierarchical_summary *)
HsChunk ==
    /\ pc = "call"
    /\ chunks' = chunk_messages(messages, max_tokens)
    /\ summaries' = <<>>
    /\ asked' = <<>>
    /\ pc' = "summarising"
    /\ UNCHANGED <<tiktoken, messages, max_tokens, text, tokens, summary, shrunk>>
    /\ UNCHANGED memVars

(* line 76: the next element of the list comprehension, one oracle call *)
HsSummarizeChunk ==
    /\ pc = "summarising"
    /\ Len(summaries) < Len(chunks)
    /\ \E reply \in ChatCompletions :
          LET chunk == chunks[Len(summaries) + 1] IN
          /\ asked' = Append(asked, chunk)
          /\ IF reply.raises
             THEN /\ pc' = "raised"
                  /\ shrunk' = FALSE
                  /\ UNCHANGED summaries
             ELSE /\ summaries' = Append(summaries, summarize_chunk(reply))
                  /\ shrunk' = (shrunk /\ summarize_chunk(reply).len < ContentLen(chunk))
                  /\ UNCHANGED pc
    /\ UNCHANGED <<tiktoken, messages, max_tokens, text, tokens, chunks, summary>>
    /\ UNCHANGED memVars

(* lines 78-79: the base case *)
HsReturn ==
    /\ pc = "summarising"
    /\ Len(summaries) = Len(chunks)
    /\ Len(summaries) = 1
    /\ summary' = summaries[1]
    /\ pc' = "done"
    /\ UNCHANGED <<tiktoken, messages, max_tokens, text, tokens, chunks, summaries, shrunk,
                   asked>>
    /\ UNCHANGED memVars

(* lines 82-83: the recursive call, whose result is returned as it is *)
HsRecurse ==
    /\ pc = "summarising"
    /\ Len(summaries) = Len(chunks)
    /\ Len(summaries) # 1
    /\ messages' = RecursiveCallMessages(messages, summaries)
    /\ pc' = "call"
    /\ UNCHANGED <<tiktoken, max_tokens, text, tokens, chunks, summaries, summary, shrunk,
                   asked>>
    /\ UNCHANGED memVars

SummaryNext == HsChunk \/ HsSummarizeChunk \/ HsReturn \/ HsRecurse

(* The call is synchronous: the function keeps executing, and the blocking
   oracle call comes back (with an answer or an exception). *)
SummarySpec == SummaryInit /\ [][SummaryNext]_vars /\ WF_vars(SummaryNext)

(* C8: hierarchical_summary terminates with exactly one summary string,
   provided every oracle call returned a summary strictly shorter than the
   content of the chunk it was given: every run either reaches the return of
   one summary text or contains an oracle call that did not shrink. *)
C8_TerminatesUnderShrinkingOracle ==
    /\ [](pc = "done" => summary \in Texts)
    /\ <>(pc = "done" \/ ~shrunk)

C8_Witness ==
    /\ pc = "done"
    /\ shrunk
    /\ Len(messages) = 2
    /\ messages[1].role = "system"
    /\ summary \in Texts

---------------------------------------------------------------------------
(* Properties of add_event, of the two read methods and of the way the
   methods end, under Spec. *)

IsWhitespace(s) == \A i \in 1..Len(s) : s[i] \in Whitespace

(* e is arg without the whitespace at its two ends (stated without strip) *)
IsTrimmed(e, arg) ==
    /\ e = <<>> \/ (e[1] \notin Whitespace /\ e[Len(e)] \notin Whitespace)
    /\ \E i \in 0..Len(arg) :
          /\ i + Len(e) <= Len(arg)
          /\ SubSeq(arg, i + 1, i + Len(e)) = e
          /\ IsWhitespace(SubSeq(arg, 1, i))
          /\ IsWhitespace(SubSeq(arg, i + Len(e) + 1, Len(arg)))

(* C13: add_event(text) appends exactly one event, the text without its
   leading and trailing whitespace, at the end of short_term_memory; the
   events already there keep their content and position, and
   long_term_memory, compression_count and last_compression are unchanged. *)
C13_AddEventAppendsTrimmed ==
    last.op = "add_event" =>
        LET n == Len(last.pre.short_term_memory)
        IN  /\ Len(short_term_memory) = n + 1
            /\ SubSeq(short_term_memory, 1, n) = last.pre.short_term_memory
            /\ IsTrimmed(short_term_memory[n + 1], last.arg)
            /\ long_term_memory = last.pre.long_term_memory
            /\ compression_count = last.pre.compression_count
            /\ last_compression = last.pre.last_compression

C13_Witness ==
    /\ last.op = "add_event"
    /\ Len(last.pre.short_term_memory) >= 2
    /\ Len(last.arg) > Len(short_term_memory[Len(short_term_memory)])
    /\ long_term_memory # <<>>
    /\ compression_count > 0

(* C15: compression_count is never negative and never decreases; a call
   changes it only when it is a compress_memory call that returns true, and
   then by exactly one; every other call (add_event, check_for_cutoff,
   get_full_context, get_player_summary, a compress_memory call that fails
   or has nothing to compress) leaves it and last_compression unchanged. *)
C15_CountOnlyOnSuccess ==
    /\ compression_count >= 0
    /\ last.op # "none" =>
          IF last.op = "compress_memory" /\ last.result = True
          THEN compression_count = last.pre.compression_count + 1
          ELSE /\ compression_count = last.pre.compression_count
               /\ last_compression = last.pre.last_compression

(* C17: no exception leaves add_event, compress_memory or get_full_context,
   whatever the store and whatever the oracle does. *)
C17_NoExceptionEscapes ==
    last.op \in {"add_event", "compress_memory", "get_full_context"} =>
        last.result # Raised

(* C18: when the oracle fails during the cutoff decision of
   check_for_cutoff (5 events or more), the call is abandoned with the
   memory untouched and the caller gets a failure result, not the
   exception. *)
C18_OracleFailureRecovered ==
    (last.op = "check_for_cutoff" /\ "llm_parse" \in last.raised) =>
        /\ last.result = False
        /\ Store = last.pre

(* The position of the first occurrence of x in seq, 0 if there is none *)
IndexOf(seq, x) ==
    IF \E i \in 1..Len(seq) : seq[i] = x
    THEN CHOOSE i \in 1..Len(seq) : seq[i] = x /\ \A j \in 1..(i - 1) : seq[j] # x
    ELSE 0

(* What follows the line of doc that holds position i *)
AfterLine(doc, i) ==
    LET eol == CHOOSE k \in i..Len(doc) : doc[k] = "\n" /\ \A j \in i..(k - 1) : doc[j] # "\n"
    IN  SubSeq(doc, eol + 1, Len(doc))

(* C19: the document get_full_context returns has a Long-term Memory
   section, holding long_term_memory and followed by the Recent Events
   section, exactly when long_term_memory is not empty, and the Recent
   Events section alone when it is empty; the Recent Events section holds
   the short-term events in order joined by newlines, or the sentinel
   'No recent events.' exactly when short_term_memory is empty. *)
C19_FullContextSections ==
    last.op = "get_full_context" =>
        LET doc == last.result
            lt == IndexOf(doc, LongTermHeader)
            re == IndexOf(doc, RecentHeader)
            recent == AfterLine(doc, re)
        IN  /\ re > 0
            /\ (lt > 0) <=> (long_term_memory # <<>>)
            /\ lt > 0 =>
                  /\ lt < re
                  /\ SubSeq(AfterLine(doc, lt), 1, Len(long_term_memory)) = long_term_memory
                  /\ IndexOf(AfterLine(doc, lt), RecentHeader) > Len(long_term_memory)
            /\ (IndexOf(doc, NoRecentEvents) > 0) <=> (short_term_memory = <<>>)
            /\ recent = (IF short_term_memory = <<>> THEN <<NoRecentEvents>>
                         ELSE join(<<"\n">>, short_term_memory)) \o <<"\n">>
            /\ Store = last.pre

C19_Witness ==
    /\ last.op = "get_full_context"
    /\ long_term_memory # <<>>
    /\ Len(short_term_memory) >= 2
    /\ IndexOf(last.result, LongTermHeader) > 0

---------------------------------------------------------------------------
(* AppState (main.py): the memory store saved to and loaded from
   STATE_SAVE_FILE.  Of the JSON document only the `memory` object is
   modelled; its four values are kept as the JSON text pydantic writes. *)

Digits == <<"0", "1", "2", "3", "4", "5", "6", "7", "8", "9">>

RECURSIVE JsonInt(_)
JsonInt(n) ==
    IF n < 10 THEN <<Digits[n + 1]>>
    ELSE JsonInt(n \div 10) \o <<Digits[(n % 10) + 1]>>

RECURSIVE ParseJsonInt(_)
ParseJsonInt(t) ==
    IF t = <<>> THEN 0
    ELSE 10 * ParseJsonInt(SubSeq(t, 1, Len(t) - 1))
         + (CHOOSE d \in 0..9 : Digits[d + 1] = t[Len(t)])

(* A JSON string: the quote, the backslash and the newline are escaped *)
RECURSIVE JsonEscape(_)
JsonEscape(str) ==
    IF str = <<>> THEN <<>>
    ELSE LET c == Head(str)
         IN  (IF c = "\n" THEN <<"\\", "n">>
              ELSE IF c \in {"\"", "\\"} THEN <<"\\", c>>
              ELSE <<c>>) \o JsonEscape(Tail(str))

JsonString(str) == <<"\"">> \o JsonEscape(str) \o <<"\"">>

RECURSIVE JsonUnescape(_)
JsonUnescape(t) ==
    IF t = <<>> THEN <<>>
    ELSE IF Head(t) = "\\" /\ Len(t) >= 2
    THEN <<IF t[2] = "n" THEN "\n" ELSE t[2]>> \o JsonUnescape(Tail(Tail(t)))
    ELSE <<Head(t)>> \o JsonUnescape(Tail(t))

(* A plausible slip: the text between the quotes taken as it stands. *)
ParseJsonString_mutNoUnescape(t) == SubSeq(t, 2, Len(t) - 1)

ParseJsonString(t) == JsonUnescape(SubSeq(t, 2, Len(t) - 1))

(* self.model_dump_json(indent=2), the `memory` object *)
model_dump_json(st) ==
    [long_term_memory  |-> JsonString(st.long_term_memory),
     short_term_memory |-> [i \in 1..Len(st.short_term_memory) |->
                               JsonString(st.short_term_memory[i])],
     compression_count |-> JsonInt(st.compression_count),
     last_compression  |-> IF st.last_compression = None THEN <<"null">>
                           ELSE JsonString(<<st.last_compression>>)]

(* AppState.model_validate_json(text), the `memory` object *)
model_validate_json(doc) ==
    [long_term_memory  |-> ParseJsonString(doc.long_term_memory),
     short_term_memory |-> [i \in 1..Len(doc.short_term_memory) |->
                               ParseJsonString(doc.short_term_memory[i])],
     compression_count |-> ParseJsonInt(doc.compression_count),
     last_compression  |-> IF doc.last_compression = <<"null">> THEN None
                           ELSE ParseJsonString(doc.last_compression)[1]]

(* SimpleMemorySystem(): the field defaults *)
NewMemory ==
    [long_term_memory |-> <<>>, short_term_memory |-> <<>>,
     compression_count |-> 0, last_compression |-> None]

SetStore(st) ==
    /\ long_term_memory' = st.long_term_memory
    /\ short_term_memory' = st.short_term_memory
    /\ compression_count' = st.compression_count
    /\ last_compression' = st.last_compression

(* An AppState object exists once load has run, and load leaves the file
   in place: the methods of the object are enabled by the file. *)
Loaded == disk # NoFile

(* AppState.load(): the file is read if it exists; a new state is built and
   saved if not.  `found` and `after` record whether the file existed and
   which call came before. *)
LoadCall ==
    /\ IF disk # NoFile
       THEN SetStore(model_validate_json(disk)) /\ UNCHANGED disk
       ELSE SetStore(NewMemory) /\ disk' = model_dump_json(NewMemory)
    /\ last' = [op |-> "load", arg |-> None, pre |-> Store, result |-> None,
                requests |-> <<>>, replies |-> <<>>, raised |-> {},
                found |-> disk # NoFile, after |-> last.op]

(* AppState.save() *)
SaveCall ==
    /\ disk' = model_dump_json(Store)
    /\ last' = [op |-> "save", arg |-> None, pre |-> Store, result |-> None,
                requests |-> <<>>, replies |-> <<>>, raised |-> {}]
    /\ UNCHANGED <<long_term_memory, short_term_memory, compression_count,
                   last_compression>>

(* AppState.append_memory(event): self.memory.add_event(event); self.save() *)
AppendMemoryCall(event) ==
    LET out == AddEventCall(Store, event)
    IN  /\ Completes("append_memory", event, out)
        /\ disk' = model_dump_json(out.store)

load ==
    /\ LoadCall
    /\ UNCHANGED <<pending, added, ctxVars>>

save ==
    /\ Loaded
    /\ SaveCall
    /\ UNCHANGED <<pending, added, ctxVars>>

append_memory ==
    /\ Loaded
    /\ Len(short_term_memory) < MaxEvents
    /\ \E event \in EventTexts : AppendMemoryCall(event)
    /\ UNCHANGED <<pending, added, ctxVars>>

AppNext ==
    \/ load
    \/ save
    \/ append_memory
    \/ compress_memory

AppSpec == Init /\ [][AppNext]_vars

(* C11: a store written by save and read back by load has the same
   long_term_memory, the same short_term_memory (same events, same order),
   the same compression_count and the same last_compression, for every
   store add_event and compress_memory can produce. *)
C11_SaveLoadRoundTrip ==
    (last.op = "load" /\ last.after = "save") => Store = last.pre

C11_Witness ==
    /\ last.op = "load"
    /\ last.after = "save"
    /\ last.found
    /\ long_term_memory # <<>>
    /\ compression_count > 0
    /\ last_compression # None
    /\ Len(short_term_memory) >= 2
    /\ \E i \in 1..Len(short_term_memory) : IndexOf(short_term_memory[i], "\n") > 0

(* C12: after every call that changes the memory (each add_event, each
   compress_memory that succeeds) the file holds the store as it now is:
   all four fields read back from the file equal the fields in memory. *)
C12_SnapshotFollowsStore ==
    (last.op \in {"append_memory", "compress_memory"} /\ Store # last.pre) =>
        /\ disk # NoFile
        /\ model_validate_json(disk) = Store

---------------------------------------------------------------------------
(* main (main.py): the game loop.  `pc` is the position in main: "idle"
   before it is called and after it has ended, "loop" at the head of the
   while loop, "npc" inside an NPC interaction. *)

ctxRest == <<tiktoken, messages, max_tokens, text, tokens, chunks, summaries, summary, shrunk,
            asked>>

(* line 496: app_state = AppState.load() *)
MainStart ==
    /\ pc = "idle"
    /\ LoadCall
    /\ pc' = "loop"
    /\ UNCHANGED <<pending, added, ctxRest>>

(* lines 521-549: one pass of the loop up to the NPC test; dm_turn reads the
   memory and leaves it alone *)
MainTurn ==
    /\ pc = "loop"
    /\ Len(short_term_memory) < MaxEvents
    /\ \E memory_entry \in EventTexts, npc \in BOOLEAN :
          /\ AppendMemoryCall(memory_entry)
          /\ pc' = IF npc THEN "npc" ELSE "loop"
    /\ UNCHANGED <<pending, added, ctxRest>>

(* lines 544-547: the NPC interaction and its summary *)
MainNpc ==
    /\ pc = "npc"
    /\ Len(short_term_memory) < MaxEvents
    /\ \E interaction_summary \in EventTexts : AppendMemoryCall(interaction_summary)
    /\ pc' = "loop"
    /\ UNCHANGED <<pending, added, ctxRest>>

(* lines 554-555: the loop is left by an exception or by the generator
   being closed; finally: app_state.save() *)
MainExit ==
    /\ pc \in {"loop", "npc"}
    /\ SaveCall
    /\ pc' = "idle"
    /\ UNCHANGED <<pending, added, ctxRest>>

MainNext ==
    \/ MainStart
    \/ MainTurn
    \/ MainNpc
    \/ MainExit

MainSpec == Init /\ [][MainNext]_vars

(* C16: in the game loop, once short_term_memory holds 5 events the cutoff
   policy is consulted after events have been appended (and compress_memory
   is called when it approves). *)
C16_LoopConsultsCutoff ==
    (last.op = "append_memory" /\ Len(short_term_memory) >= MIN_EVENTS) =>
        \E i \in 1..Len(last.requests) : last.requests[i].kind = "cutoff"

---------------------------------------------------------------------------
(* The order of the events: add_event and compress_memory with the history
   of what add_event was given. *)

MaxAdded == 5

add_event_recorded ==
    /\ Len(short_term_memory) < MaxEvents
    /\ Len(added) < MaxAdded
    /\ \E event \in EventTexts :
          /\ Completes("add_event", event, AddEventCall(Store, event))
          /\ added' = Append(added, strip(event))
    /\ UNCHANGED <<disk, pending, ctxVars>>

OrderNext ==
    \/ add_event_recorded
    \/ compress_memory

OrderSpec == Init /\ [][OrderNext]_vars

IsSuffix(tail, seq) ==
    /\ Len(tail) <= Len(seq)
    /\ \A i \in 1..Len(tail) : tail[i] = seq[Len(seq) - Len(tail) + i]

(* C14: short_term_memory is always a contiguous suffix of the trimmed
   events in the order add_event received them, and every merge request
   lists the short-term events of the moment of the call in that order,
   with the long_term_memory of that moment. *)
C14_EventsKeepOrder ==
    /\ IsSuffix(short_term_memory, added)
    /\ (last.op = "compress_memory" /\ last.requests # <<>>) =>
          /\ IsSuffix(last.pre.short_term_memory, added)
          /\ last.requests[1].short_term = join(<<"\n">>, last.pre.short_term_memory)
          /\ last.requests[1].long_term_memory = last.pre.long_term_memory

C14_Witness ==
    /\ last.op = "compress_memory"
    /\ last.result = True
    /\ Len(last.pre.short_term_memory) > KEEP_RECENT
    /\ last.pre.long_term_memory # <<>>
    /\ \E i, j \in 1..Len(short_term_memory) : short_term_memory[i] # short_term_memory[j]

---------------------------------------------------------------------------
(* compress_memory with another caller: the call is split where it waits
   for llm_parse, and add_event may run in between.  The class holds no
   lock. *)

MaxSplitCalls == 1

(* compress_memory up to the llm_parse call (lines 65-99) *)
CompressBegin ==
    /\ pending = NoCall
    /\ compression_count < MaxSplitCalls
    /\ IF NothingToCompress(short_term_memory)
       THEN /\ Completes("compress_memory", None,
                         CompressCall(Store, [raises |-> TRUE], None, "ok", "ok"))
            /\ UNCHANGED pending
       ELSE /\ pending' = [op |-> "compress_memory", pre |-> Store,
                           request |-> [kind |-> "merge",
                                        long_term_memory |-> long_term_memory,
                                        short_term |-> join(<<"\n">>, short_term_memory)]]
            /\ UNCHANGED <<long_term_memory, short_term_memory, compression_count,
                           last_compression, last>>
    /\ UNCHANGED <<disk, added, ctxVars>>

(* compress_memory from the answer of llm_parse on (lines 99-114), run on
   the store as it is by then; `found` records that store *)
CompressEnd ==
    /\ pending # NoCall
    /\ \E resp \in llm_parse(MemoryCompressions), now \in Timestamps,
          print109 \in PrintOutcomes, print113 \in PrintOutcomes :
          LET try == CompressTry(Store, resp, now, print109)
              result == IF try.raised = {} THEN True
                        ELSE IF print113 = "raises" THEN Raised ELSE False
              raised == IF try.raised # {} /\ print113 = "raises"
                        THEN try.raised \cup {"print113"} ELSE try.raised
          IN  /\ SetStore(try.store)
              /\ last' = [op |-> "compress_memory", arg |-> None, pre |-> pending.pre,
                          result |-> result, requests |-> <<pending.request>>,
                          replies |-> <<resp>>, raised |-> raised, found |-> Store]
    /\ pending' = NoCall
    /\ UNCHANGED <<disk, added, ctxVars>>

ConcNext ==
    \/ add_event
    \/ CompressBegin
    \/ CompressEnd

ConcSpec == Init /\ [][ConcNext]_vars

(* C20: when add_event calls of another caller fall inside a
   compress_memory call that waits for the oracle, the call still acts as
   one step: it removes no event that was appended during the oracle call
   and so was not part of the merge request. *)
C20_NoUnmergedEventLost ==
    (last.op = "compress_memory" /\ last.result = True) =>
        LET merged == Len(last.pre.short_term_memory)
            removed == Len(last.found.short_term_memory) - Len(short_term_memory)
        IN  removed <= merged

---------------------------------------------------------------------------
(* Further properties of chunk_messages, under ChunkSpec. *)

(* C21: chunk_messages packs greedily: a chunk is closed only where the
   next record would take it over the budget, so for every two consecutive
   chunks the token sum of the earlier one plus the estimate of the first
   record of the later one is strictly greater than max_tokens. *)
C21_GreedyPacking ==
    pc = "chunked" =>
        \A c \in 1..(Len(chunks) - 1) :
            /\ chunks[c + 1] # <<>>
            /\ SumTokens(chunks[c]) + approx_tokens(chunks[c + 1][1].content) > max_tokens

C21_Witness ==
    /\ pc = "chunked"
    /\ Len(chunks) = 2
    /\ Len(chunks[1]) = 2
    /\ SumTokens(chunks[1]) = max_tokens
    /\ ~Oversized(chunks[2][1])

(* C28: for a non-empty input chunk_messages returns no empty chunk, so the
   number of chunks lies between 1 and the number of records; an empty
   chunk is returned for the empty input only. *)
C28_NoEmptyChunk ==
    pc = "chunked" =>
        /\ messages # <<>> =>
              /\ \A c \in DOMAIN chunks : chunks[c] # <<>>
              /\ 1 <= Len(chunks)
              /\ Len(chunks) <= Len(messages)
        /\ (\E c \in DOMAIN chunks : chunks[c] = <<>>) => messages = <<>>

C28_Witness ==
    /\ pc = "chunked"
    /\ Len(messages) = 3
    /\ Oversized(messages[1])
    /\ Len(chunks) = 3

---------------------------------------------------------------------------
(* Frame properties of the store and of its two oracle calls, under Spec. *)

(* C23: with 5 or more events in short_term_memory, check_for_cutoff makes
   exactly one oracle request and returns exactly the should_compress
   boolean of the decision the oracle gives, whatever its reason string;
   the call changes no field of the store. *)
C23_CutoffReturnsDecision ==
    (last.op = "check_for_cutoff" /\ Len(last.pre.short_term_memory) >= MIN_EVENTS) =>
        /\ Len(last.requests) = 1
        /\ last.requests[1].kind = "cutoff"
        /\ Len(last.replies) = 1
        /\ ~last.replies[1].raises =>
              last.result = BoolStr(last.replies[1].parsed.should_compress)
        /\ Store = last.pre

C23_Witness ==
    /\ last.op = "check_for_cutoff"
    /\ Len(last.pre.short_term_memory) >= MIN_EVENTS
    /\ last.result = True
    /\ last.replies[1].parsed.reason = <<>>
    /\ long_term_memory # <<>>

(* C24: the length of short_term_memory grows by exactly 1 on each
   add_event and shrinks only by a compress_memory call that succeeds; no
   other call (check_for_cutoff, get_full_context, get_player_summary, a
   compress_memory call that fails) changes its length or its contents. *)
C24_ShortTermFrame ==
    last.op # "none" =>
        IF last.op = "add_event"
        THEN Len(short_term_memory) = Len(last.pre.short_term_memory) + 1
        ELSE IF last.op = "compress_memory" /\ last.result = True
        THEN Len(short_term_memory) <= Len(last.pre.short_term_memory)
        ELSE short_term_memory = last.pre.short_term_memory

(* C25: long_term_memory changes only by a compress_memory call that
   succeeds, which replaces it as a whole by the oracle's document;
   add_event, check_for_cutoff, get_full_context, get_player_summary and
   every compress_memory call that returns false leave it unchanged. *)
C25_LongTermFrame ==
    last.op # "none" =>
        IF last.op = "compress_memory" /\ last.result = True
        THEN long_term_memory = last.replies[1].parsed.compressed_long_term
        ELSE long_term_memory = last.pre.long_term_memory

IsPrefix(head, seq) ==
    /\ Len(head) <= Len(seq)
    /\ \A i \in 1..Len(head) : head[i] = seq[i]

(* C26: with the calls made one after another, events leave
   short_term_memory in compress_memory calls only, and every event such a
   call removes was listed in the merge request of that same call, a
   request the oracle answered and whose document became long_term_memory:
   no event leaves short-term memory without having been submitted to the
   merge oracle. *)
C26_RemovedEventsWereMerged ==
    /\ (last.op # "none" /\ last.op # "compress_memory") =>
           IsPrefix(last.pre.short_term_memory, short_term_memory)
    /\ (last.op = "compress_memory" /\ short_term_memory # last.pre.short_term_memory) =>
           /\ Len(last.requests) = 1
           /\ last.requests[1].kind = "merge"
           /\ last.requests[1].short_term = join(<<"\n">>, last.pre.short_term_memory)
           /\ ~last.replies[1].raises
           /\ long_term_memory = last.replies[1].parsed.compressed_long_term
           /\ IsSuffix(short_term_memory, last.pre.short_term_memory)

C26_Witness ==
    /\ last.op = "compress_memory"
    /\ last.result = True
    /\ Len(last.pre.short_term_memory) >= MIN_EVENTS
    /\ Len(short_term_memory) = KEEP_RECENT
    /\ last.pre.long_term_memory # <<>>

(* C27: for a store that starts fresh and is changed by add_event and
   compress_memory only, last_compression is unset exactly when
   compression_count is 0. *)
C27_TimestampIffCompressed ==
    (last_compression = None) <=> (compression_count = 0)

C27_Witness ==
    /\ compression_count = MaxCompressions
    /\ last_compression # None
    /\ last.op = "add_event"

(* C30: a compress_memory call that succeeds leaves short_term_memory with
   at least 1 and at most 3 events, and compress_memory is not idempotent:
   a second call made directly after it sends a merge request with the
   retained events and, if it succeeds, leaves short_term_memory as it was
   and raises compression_count by 1 again. *)
C30_SecondCompressMergesAgain ==
    /\ []((last.op = "compress_memory" /\ last.result = True) =>
              (short_term_memory # <<>> /\ Len(short_term_memory) <= KEEP_RECENT))
    /\ [][(/\ last.op = "compress_memory"
           /\ last.result = True
           /\ last'.op = "compress_memory"
           /\ last'.pre = Store) =>
              /\ Len(last'.requests) = 1
              /\ last'.requests[1].short_term = join(<<"\n">>, short_term_memory)
              /\ last'.requests[1].long_term_memory = long_term_memory
              /\ last'.result = True =>
                    /\ short_term_memory' = short_term_memory
                    /\ compression_count' = compression_count + 1]_vars

C30_Witness ==
    /\ last.op = "compress_memory"
    /\ last.result = True
    /\ last.pre.compression_count = 1
    /\ Len(last.pre.short_term_memory) = KEEP_RECENT
    /\ short_term_memory = last.pre.short_term_memory
    /\ last.pre.last_compression # None
    /\ compression_count = 2

---------------------------------------------------------------------------
(* The passes of hierarchical_summary, under SummarySpec. *)

(* C22: each pass of hierarchical_summary calls the oracle exactly once per
   chunk, in chunk order.  A pass of exactly one chunk returns the summary
   of that chunk and no oracle call follows; any other pass hands to the
   next pass exactly one record per chunk, holding the summary of that
   chunk, in chunk order, with the same chunk budget. *)
C22_OneOracleCallPerChunk ==
    /\ [](pc \in {"summarising", "raised", "done"} =>
             /\ IsPrefix(asked, chunks)
             /\ Len(asked) = Len(summaries) + (IF pc = "raised" THEN 1 ELSE 0))
    /\ [](pc = "done" => (Len(chunks) = 1 /\ asked = chunks /\ summary = summaries[1]))
    /\ [][pc = "done" => UNCHANGED asked]_vars
    /\ [][(pc = "summarising" /\ pc' \in {"done", "call"}) =>
              /\ asked = chunks
              /\ pc' = "done" <=> Len(chunks) = 1
              /\ pc' = "call" =>
                    /\ Len(messages') = Len(chunks)
                    /\ \A i \in 1..Len(chunks) : messages'[i].content = summaries[i]
                    /\ max_tokens' = max_tokens]_vars

C22_Witness ==
    /\ pc = "call"
    /\ Len(asked) = 2
    /\ asked = chunks
    /\ Len(messages) = 2
    /\ messages[1].role = "system"
    /\ messages[1].content # messages[2].content

---------------------------------------------------------------------------
(* hierarchical_summary with its default chunk budget and an oracle that
   keeps to the size it is asked for. *)

MaxPassMsgs == 6

(* summarize_chunk, line 56: target_tokens = 256, passed as max_tokens of
   the completion *)
TARGET_TOKENS == 256

(* A plausible slip: the chunk budget taken to be the summary target. *)
DEFAULT_CHUNK_TOKENS_mutTarget == TARGET_TOKENS

(* hierarchical_summary, line 72: chunk_tokens = 1500 *)
DEFAULT_CHUNK_TOKENS == 1500

(* A long message of the history: no two of them fit one chunk *)
LongHistoryTexts == { [len |-> 4000, bpe |-> 1000] }

(* Answers of the oracle; the ones it may give are those whose estimate,
   by the estimator in use, is at most the target *)
SummaryTexts ==
    { [len |-> 4, bpe |-> 1], [len |-> 1024, bpe |-> 256], [len |-> 1028, bpe |-> 256] }

WithinTarget == { t \in SummaryTexts : approx_tokens(t) <= TARGET_TOKENS }

TargetCompletions == [raises : {TRUE}] \cup [raises : {FALSE}, content : WithinTarget]

DefaultInit ==
    /\ MemIdle
    /\ tiktoken \in BOOLEAN
    /\ messages \in SeqsUpTo([role : Roles, content : LongHistoryTexts], MaxPassMsgs)
    /\ max_tokens = DEFAULT_CHUNK_TOKENS
    /\ pc = "call"
    /\ text = None
    /\ tokens = 0
    /\ chunks = <<>>
    /\ summaries = <<>>
    /\ summary = None
    /\ shrunk = TRUE
    /\ asked = <<>>

(* line 76: one summarize_chunk call, answered within the target *)
HsSummarizeWithinTarget ==
    /\ pc = "summarising"
    /\ Len(summaries) < Len(chunks)
    /\ \E reply \in TargetCompletions :
          /\ asked' = Append(asked, chunks[Len(summaries) + 1])
          /\ IF reply.raises
             THEN pc' = "raised" /\ UNCHANGED summaries
             ELSE summaries' = Append(summaries, summarize_chunk(reply)) /\ UNCHANGED pc
    /\ UNCHANGED <<tiktoken, messages, max_tokens, text, tokens, chunks, summary, shrunk>>
    /\ UNCHANGED memVars

DefaultNext == HsChunk \/ HsSummarizeWithinTarget \/ HsReturn \/ HsRecurse

DefaultSpec == DefaultInit /\ [][DefaultNext]_vars /\ WF_vars(DefaultNext)

(* C29: with the default chunk budget of 1500 tokens and every summary of
   the oracle estimated at 256 tokens at most, a pass of
   hierarchical_summary that produced n >= 2 chunks is followed by a pass
   that produces fewer than n chunks, at least 5 summaries sharing each
   chunk that is closed; the recursion ends after finitely many passes. *)
C29_PassesShrinkAtDefaultBudget ==
    /\ [][(pc = "call" /\ pc' = "summarising" /\ Len(chunks) >= 2) =>
              Len(chunks') < Len(chunks)]_vars
    /\ []((pc = "summarising" /\ messages # <<>> /\ messages[1].role = "system") =>
              \A c \in 1..(Len(chunks) - 1) : Len(chunks[c]) >= 5)
    /\ <>(pc \in {"done", "raised"})

C29_Witness ==
    /\ pc = "summarising"
    /\ Len(messages) = 6
    /\ messages[1].role = "system"
    /\ Len(chunks) = 2
    /\ Len(chunks[1]) = 5
    /\ max_tokens = DEFAULT_CHUNK_TOKENS

====
